---- MODULE Spec2Model ----
(***************************************************************************)
(* VadzHelperBot: the per-user conversation state machine, the todo store  *)
(* and the paginated, callback-driven todo listing of src/app/handlers.py  *)
(* over the peewee models of src/app/database.py.                          *)
(*                                                                         *)
(* In Spec and PageSpec every handler is one action.  A handler's store    *)
(* accesses (peewee is synchronous) and the replies it sends are recorded  *)
(* in `out`, the observable outcome of the event handled last.  ConcSpec   *)
(* runs handler invocations as tasks that interleave at their awaits.      *)
(***************************************************************************)
EXTENDS Integers, Sequences, FiniteSets, TLC

VARIABLES
    users,   \* table user: id -> row
    todos,   \* table todo: the rows in rowid order
    now,     \* datetime.now()
    out,     \* the observable outcome of the event handled last
    pre,     \* history: the store and the clock as the last event found them
    walk,    \* history: the pages listed in order since the last store change
    events,  \* history: the number of events handled so far
    tasks    \* the handler invocations in flight, in arrival order (ConcSpec)

vars == <<users, todos, now, out, pre, walk, events, tasks>>

(***************************************************************************)
(* Bounds and input alphabets                                              *)
(***************************************************************************)
MaxTodos == 2        \* todos created through the handlers in Spec
MaxEvents == 4       \* events handled in one behaviour of Spec
MaxPreload == 12     \* todos of the preloaded store of PageSpec
MaxTasks == 2        \* handler invocations in one behaviour of ConcSpec
MaxNum == 16         \* integers the decimal parser knows: -MaxNum..MaxNum

UserIds == {1, 2}                       \* Telegram ids of the senders
Texts == {"buy milk", "call mom"}       \* free text / command arguments
Clock == {0, 1}                         \* datetime.now(), in days
None == "<None>"                        \* Python's None
\* message.from_user.username is optional: sender 1 has one, sender 2 has none
TgUsername == (1 :> "alice") @@ (2 :> None)

(***************************************************************************)
(* database.py                                                             *)
(***************************************************************************)
DONE == "done"
PENDING == "pending"
ACTIVE == "active"
DECLINED == "declined"
TodoStatus == {ACTIVE, DONE, PENDING, DECLINED}

TODO == "todo"
ActiveCommand == {TODO}

\* class User: id is the key of `users`; username NOT NULL; active_command nullable.
User(username, active_command) ==
    [username |-> username, active_command |-> active_command]

\* class Todo: id is an AutoField, the row's position in `todos`.
Todo(id, text, status, due_date, user) ==
    [id |-> id, text |-> text, status |-> status, due_date |-> due_date, user |-> user]

\* init_db drops and recreates both tables: the store starts empty.
init_db == users = <<>> /\ todos = <<>>

(***************************************************************************)
(* str() and int(): decimal formatting and parsing                         *)
(***************************************************************************)
IntRange == (0 - MaxNum) .. MaxNum

\* str(n)
str == [n \in IntRange |-> ToString(n)]

Numerals == {str[n] : n \in IntRange}

\* int(s) succeeds exactly on a decimal numeral; otherwise ValueError.
IsInt(s) == s \in Numerals

int(s) == CHOOSE n \in IntRange : str[n] = s

Min(a, b) == IF a < b THEN a ELSE b

Last(s) == s[Len(s)]

(***************************************************************************)
(* Outbound responder: the messages a handler sends and its outcome        *)
(***************************************************************************)
\* One sent message: its kind, its text argument, two numbers it shows, the
\* completed glyph, and the callback_data of each inline button.
Msg(kind, text, n1, n2, done, buttons) ==
    [kind |-> kind, text |-> text, n1 |-> n1, n2 |-> n2, done |-> done,
     buttons |-> buttons]

Plain(kind) == Msg(kind, "", 0, 0, FALSE, <<>>)

\* No listing was rendered by the event.
NoListing ==
    [served |-> FALSE, page |-> 0, total_pages |-> 0, offset |-> 0, items |-> <<>>]

\* The outcome of one event: which handler ran (ev) for which sender on which
\* input; the messages it posted, in order; for a callback, the acknowledgement
\* (ack) it gave; the exception that left the handler (raised); the page it
\* rendered; the in-place edit of the originating message; whether it deleted
\* the originating message; and the users /get_users listed.
NoOut ==
    [ev |-> "none", user |-> 0, input |-> <<>>, replies |-> <<>>, ack |-> "none",
     raised |-> "none", listing |-> NoListing, edited |-> <<>>, deleted |-> FALSE,
     listed |-> {}]

Outcome(ev, u, input) == [NoOut EXCEPT !.ev = ev, !.user = u, !.input = input]

\* callback_query.answer(text, show_alert=True) texts
AlertAcks == {"todo_not_found", "user_not_found", "error"}

\* The page walk: the items rendered by the listings of one user that asked
\* for pages 1, 2, 3, ... in order with no change of the todo table between.
NoWalk == [user |-> 0, next |-> 0, items |-> <<>>]

(***************************************************************************)
(* Queries of show_todos_page                                              *)
(***************************************************************************)
items_per_page == 5

\* Todo.select().where(Todo.user == user), in rowid order
UserTodos(u) == SelectSeq(todos, LAMBDA t : t.user = u)

\* .count()
CountTodos(u) == Len(UserTodos(u))

RECURSIVE InsertByDueUnstable(_, _)
\* Mutant of InsertByDue: a sort that puts a row before the rows of equal due_date.
InsertByDueUnstable(sorted, t) ==
    IF sorted = <<>> THEN <<t>>
    ELSE IF Last(sorted).due_date < t.due_date THEN Append(sorted, t)
    ELSE Append(InsertByDueUnstable(SubSeq(sorted, 1, Len(sorted) - 1), t), Last(sorted))

RECURSIVE InsertByDue(_, _)
\* One row put in its place among the rows already sorted
InsertByDue(sorted, t) ==
    IF sorted = <<>> THEN <<t>>
    ELSE IF Last(sorted).due_date <= t.due_date THEN Append(sorted, t)
    ELSE Append(InsertByDue(SubSeq(sorted, 1, Len(sorted) - 1), t), Last(sorted))

RECURSIVE OrderByDueDate(_)
\* .order_by(Todo.due_date): SQLite sorts the rows, read in rowid order, on
\* due_date alone and keeps rows of equal due_date in the order read.
OrderByDueDate(rows) ==
    IF rows = <<>> THEN <<>>
    ELSE InsertByDue(OrderByDueDate(SubSeq(rows, 1, Len(rows) - 1)), Last(rows))

\* .limit(n).offset(k): SQLite reads a negative OFFSET as 0.
LimitOffset(rows, limit, offset) ==
    LET k == IF offset < 0 THEN 0 ELSE offset
    IN  SubSeq(rows, k + 1, Min(k + limit, Len(rows)))

\* total_pages = (total_todos + items_per_page - 1) // items_per_page
TotalPages(total_todos) == (total_todos + items_per_page - 1) \div items_per_page

\* offset = (page - 1) * items_per_page
Offset(page) == (page - 1) * items_per_page

\* if page > total_pages: page = total_pages
ClampPage(page, total_pages) == IF page > total_pages THEN total_pages ELSE page

\* The rows of the page: the lazily built select of lines 184-188.
PageQuery(u, offset) == LimitOffset(OrderByDueDate(UserTodos(u)), items_per_page, offset)

\* callback_data=f"done_todo_{todo.id}", as data.split("_") reads it back
DoneData(id) == <<"done", "todo", str[id]>>

\* callback_data=f"get_todos {page}", as data.split() reads it back
PageData(page) == <<"get_todos", str[page]>>

\* One item message: glyph, text, due date, and the Mark-as-Done button
\* unless the todo is done.
ItemMsg(t) ==
    Msg("item", t.text, t.due_date, 0, t.status = DONE,
        IF t.status # DONE THEN <<DoneData(t.id)>> ELSE <<>>)

ItemMsgs(rows) == [i \in 1 .. Len(rows) |-> ItemMsg(rows[i])]

\* navigation_buttons: Previous when page > 1, Next when page < total_pages
NavButtons(page, total_pages) ==
    (IF page > 1 THEN <<PageData(page - 1)>> ELSE <<>>)
    \o (IF page < total_pages THEN <<PageData(page + 1)>> ELSE <<>>)

NavMsgs(page, total_pages) ==
    IF NavButtons(page, total_pages) # <<>>
    THEN <<Msg("navigate", "", 0, 0, FALSE, NavButtons(page, total_pages))>>
    ELSE <<>>

HeaderMsg(page, total_pages) == Msg("header", "", page, total_pages, FALSE, <<>>)

\* Mutant of NoTodos: the empty list is not told apart.
NoTodosNever(total_todos) == total_todos < 0

\* if total_todos == 0
NoTodos(total_todos) == total_todos = 0

\* Mutant of UserDoesNotExist: the error_msg reply whatever the event is.
UserDoesNotExistReply(o, isCallback) == [o EXCEPT !.replies = <<Plain("empty_state")>>]

\* except User.DoesNotExist: an alert for a callback, else the error_msg reply
UserDoesNotExist(o, isCallback) ==
    IF isCallback THEN [o EXCEPT !.ack = "user_not_found"]
    ELSE [o EXCEPT !.replies = <<Plain("empty_state")>>]

\* show_todos_page(user_id, page, message | callback_query): the outcome `o`
\* of the calling handler, completed with what the listing does.
show_todos_page(o, u, page, isCallback) ==
    IF u \notin DOMAIN users
    THEN UserDoesNotExist(o, isCallback)
    ELSE IF NoTodos(CountTodos(u))
    THEN \* total_todos == 0: reply only to a message, then return
         IF isCallback THEN o
         ELSE [o EXCEPT !.replies = <<Plain("empty_state")>>]
    ELSE LET total_pages == TotalPages(CountTodos(u))
             served == ClampPage(page, total_pages)
             offset == Offset(served)
             rows == PageQuery(u, offset)
         IN  [o EXCEPT
                !.deleted = isCallback,
                !.replies = (IF isCallback THEN <<>> ELSE <<HeaderMsg(served, total_pages)>>)
                            \o ItemMsgs(rows)
                            \o <<Plain("separator")>>
                            \o NavMsgs(served, total_pages),
                !.ack = IF isCallback THEN "ok" ELSE "none",
                !.listing = [served |-> TRUE, page |-> served,
                             total_pages |-> total_pages, offset |-> offset,
                             items |-> [i \in 1 .. Len(rows) |-> rows[i].id]]]

\* The page walk after a listing: page 1 starts it, the next page in order
\* extends it, anything else ends it.
WalkAfter(o, requested) ==
    IF ~o.listing.served THEN NoWalk
    ELSE IF requested = 1 /\ o.listing.page = 1
    THEN [user |-> o.user, next |-> 2, items |-> o.listing.items]
    ELSE IF walk.user = o.user /\ requested = walk.next /\ o.listing.page = requested
    THEN [user |-> o.user, next |-> requested + 1,
          items |-> walk.items \o o.listing.items]
    ELSE NoWalk

\* The page number a command's argument asks for (page 1 when none is given;
\* 0, no page, when it is not a number)
RequestedPage(args) ==
    IF args = <<>> THEN 1 ELSE IF IsInt(args[1]) THEN int(args[1]) ELSE 0

\* The page argument of /get_todos: lines 142-149
\* As CommandPage, but a page argument that is not a number yields page 0
CommandPageZero(args) ==
    IF args = <<>> THEN 1
    ELSE IF ~IsInt(args[1]) THEN 0
    ELSE IF int(args[1]) < 1 THEN 1
    ELSE int(args[1])

CommandPage(args) ==
    IF args = <<>> THEN 1
    ELSE IF ~IsInt(args[1]) THEN 1
    ELSE IF int(args[1]) < 1 THEN 1
    ELSE int(args[1])

\* @dp.message(F.text, Command("get_todos"))
get_todos(u, args) ==
    LET page == CommandPage(args)
        o == show_todos_page(Outcome("get_todos", u, args), u, page, FALSE)
    IN  /\ out' = o
        /\ walk' = WalkAfter(o, RequestedPage(args))
        /\ UNCHANGED <<users, todos, now>>

\* @dp.callback_query(F.data.startswith("get_todos")); data is data.split()
handle_get_todos_callback(u, data) ==
    LET o0 == Outcome("get_todos_callback", u, data)
    IN  IF ~IsInt(Last(data))
        THEN \* int() raises ValueError: except Exception
             /\ out' = [o0 EXCEPT !.ack = "error"]
             /\ walk' = NoWalk
             /\ UNCHANGED <<users, todos, now>>
        ELSE LET page == int(Last(data))
                 o == show_todos_page(o0, u, page, TRUE)
             IN  /\ out' = o
                 /\ walk' = WalkAfter(o, page)
                 /\ UNCHANGED <<users, todos, now>>

(***************************************************************************)
(* peewee: Model.save(), Model.get_or_create()                             *)
(***************************************************************************)
\* instance.save() of a row whose primary key is set and without
\* force_insert: UPDATE ... WHERE id = pk, which changes no row when the
\* table holds none with that key.
save(table, pk, row) == IF pk \in DOMAIN table THEN [table EXCEPT ![pk] = row] ELSE table

\* User.get_or_create(id=u, defaults={'username': username}) can do its
\* INSERT: username is NOT NULL.
CanGetOrCreate(u, username) == u \in DOMAIN users \/ username # None

\* The table after User.get_or_create(id=u, defaults={'username': username})
get_or_create(u, username) ==
    IF u \in DOMAIN users THEN users ELSE users @@ (u :> User(username, None))

(***************************************************************************)
(* Message handlers                                                        *)
(***************************************************************************)
\* @dp.message(CommandStart()): username or str(id)
command_start_handler(u) ==
    /\ users' = get_or_create(u, IF TgUsername[u] # None THEN TgUsername[u] ELSE str[u])
    /\ out' = [Outcome("start", u, <<>>) EXCEPT !.replies = <<Plain("greeting")>>]
    /\ UNCHANGED <<todos, now, walk>>

\* @dp.message(F.text, Command("get_users"))
get_users(u) ==
    /\ out' = [Outcome("get_users", u, <<>>) EXCEPT
                 !.replies = <<Plain("users")>>,
                 !.listed = {[id |-> i, username |-> users[i].username] : i \in DOMAIN users}]
    /\ UNCHANGED <<users, todos, now, walk>>

\* @dp.message(F.text, Command("post_users")); args is command.args.split(maxsplit=1)
post_users(u, args) ==
    LET o == Outcome("post_users", u, args)
    IN  /\ IF args = <<>>
           THEN \* command.args is None
                /\ out' = [o EXCEPT !.replies = <<Plain("post_users_usage")>>]
                /\ users' = users
           ELSE IF Len(args) # 2 \/ ~IsInt(args[1])
           THEN \* ValueError from the unpacking or from int()
                /\ out' = [o EXCEPT !.replies = <<Plain("post_users_invalid")>>]
                /\ users' = users
           ELSE \* user = User(id=user_id, username=username); user.save()
                /\ users' = save(users, int(args[1]),
                                 IF int(args[1]) \in DOMAIN users
                                 THEN [users[int(args[1])] EXCEPT !.username = args[2]]
                                 ELSE User(args[2], None))
                /\ out' = [o EXCEPT !.replies =
                             <<Msg("posted", args[2], int(args[1]), 0, FALSE, <<>>)>>]
        /\ UNCHANGED <<todos, now, walk>>

DueDays == 7

\* Mutant of ClearActiveCommand: the session is left as it is.
ClearActiveCommandNot(table, u) == table

\* As ClearActiveCommand, but the session is cleared to an empty tag
ClearActiveCommandBlank(table, u) ==
    IF table[u].active_command # None
    THEN save(table, u, [table[u] EXCEPT !.active_command = ""])
    ELSE table

\* if user.active_command: user.active_command = None; user.save()
ClearActiveCommand(table, u) ==
    IF table[u].active_command # None
    THEN save(table, u, [table[u] EXCEPT !.active_command = None])
    ELSE table

\* process_todo(user, todo_text, message): `table` is the users table as the
\* calling handler left it and table[u] the row it read.  Todo.text is NOT
\* NULL: a message without text makes Todo.create raise before anything is
\* written.
process_todo(o, table, u, todo_text) ==
    IF todo_text = None
    THEN /\ out' = [o EXCEPT !.raised = "IntegrityError"]
         /\ users' = table
         /\ UNCHANGED <<todos, now, walk>>
    ELSE /\ Len(todos) < MaxTodos
         /\ todos' = Append(todos,
                            Todo(Len(todos) + 1, todo_text, PENDING, now + DueDays, u))
         /\ users' = ClearActiveCommand(table, u)
         /\ out' = [o EXCEPT !.replies =
                      <<Msg("todo_created", todo_text, 0, 0, FALSE, <<>>)>>]
         /\ walk' = NoWalk
         /\ now' = now

\* @dp.message(F.text, Command("todo")); args is <<>> for command.args None
handle_todo_command(u, args) ==
    LET o == Outcome("todo", u, args)
        table == get_or_create(u, TgUsername[u])
    IN  IF ~CanGetOrCreate(u, TgUsername[u])
        THEN \* the INSERT fails: IntegrityError leaves the handler
             /\ out' = [o EXCEPT !.raised = "IntegrityError"]
             /\ UNCHANGED <<users, todos, now, walk>>
        ELSE IF args = <<>>
        THEN /\ users' = save(table, u, [table[u] EXCEPT !.active_command = TODO])
             /\ out' = [o EXCEPT !.replies = <<Plain("enter_todo_text")>>]
             /\ UNCHANGED <<todos, now, walk>>
        ELSE process_todo(o, table, u, args[1])

\* As IsContinuation, but every message of a known sender is taken as the
\* text of a todo
IsContinuationAlways(row) == TRUE

\* match user.active_command: case ActiveCommand.TODO.value
IsContinuation(row) == row.active_command = TODO

\* @dp.message(): every message no other handler took; text is None for a
\* message that carries no text
handle_other_messages(u, text) ==
    LET o == Outcome("other", u, <<text>>)
    IN  IF u \notin DOMAIN users
        THEN /\ out' = [o EXCEPT !.replies = <<Plain("start_first")>>]
             /\ UNCHANGED <<users, todos, now, walk>>
        ELSE IF IsContinuation(users[u])
        THEN process_todo(o, users, u, text)
        ELSE /\ out' = [o EXCEPT !.replies = <<Plain("help")>>]
             /\ UNCHANGED <<users, todos, now, walk>>

(***************************************************************************)
(* Callback handlers                                                       *)
(***************************************************************************)
\* Todo.get_by_id(todo_id) finds a row
TodoExists(todo_id) == todo_id \in 1 .. Len(todos)

\* Mutant of MarkDone: a toggle that reopens a todo that is done.
MarkDoneToggle(todo_id) ==
    [todos EXCEPT ![todo_id] =
        [todos[todo_id] EXCEPT !.status = IF @ = DONE THEN PENDING ELSE DONE]]

\* todo.status = DONE; todo.save(): every field of the row read is written back
MarkDone(todo_id) == [todos EXCEPT ![todo_id] = [todos[todo_id] EXCEPT !.status = DONE]]

\* Mutant of TodoNotFoundAck: no except clause of its own, the generic alert.
TodoNotFoundAckGeneric == "error"

\* except Todo.DoesNotExist: answer("Error: Todo not found!", show_alert=True)
TodoNotFoundAck == "todo_not_found"

\* As EditedItem, but the originating message is left as it was posted
EditedItemNone(todo) == <<>>

\* callback_query.message.edit_text(updated_text): the originating message
\* now shows the completed glyph, the todo's text and due date, and, no
\* reply_markup being passed, no button
EditedItem(todo) == <<Msg("item", todo.text, todo.due_date, 0, TRUE, <<>>)>>

\* @dp.callback_query(F.data.startswith("done_todo_")); data is data.split("_")
handle_done_todo_callback(u, data) ==
    LET o == Outcome("done_todo_callback", u, data)
    IN  IF ~IsInt(Last(data))
        THEN \* int() raises ValueError: except Exception
             /\ out' = [o EXCEPT !.ack = "error"]
             /\ UNCHANGED <<users, todos, now, walk>>
        ELSE IF ~TodoExists(int(Last(data)))
        THEN \* except Todo.DoesNotExist
             /\ out' = [o EXCEPT !.ack = TodoNotFoundAck]
             /\ UNCHANGED <<users, todos, now, walk>>
        ELSE LET todo == MarkDone(int(Last(data)))[int(Last(data))]
             IN  /\ todos' = MarkDone(int(Last(data)))
                 /\ out' = [o EXCEPT
                              !.edited = EditedItem(todo),
                              !.ack = "done"]
                 /\ walk' = NoWalk
                 /\ UNCHANGED <<users, now>>

(***************************************************************************)
(* The clock and the events                                                *)
(***************************************************************************)
\* datetime.now() is the local wall clock: it changes between events, and
\* not only forwards.
ClockChange ==
    /\ now' \in Clock \ {now}
    /\ UNCHANGED <<users, todos, out, pre, walk, events, tasks>>

\* Arguments of /get_todos: none, a number of `pages`, or something else
PageArgs(pages) == {<<>>, <<"abc">>} \cup {<<str[n]>> : n \in pages}

\* Payloads that start with "get_todos"
PagePayloads(pages) == {<<"get_todos">>} \cup {PageData(n) : n \in pages}

\* Payloads that start with "done_todo_"
DonePayloads ==
    {DoneData(n) : n \in 0 .. MaxTodos + 1} \cup {<<"done", "todo", "abc">>}

\* Arguments of /post_users
PostArgs ==
    {<<>>, <<"1">>, <<"abc", "bob">>} \cup {<<str[n], "bob">> : n \in UserIds}

\* Arguments of /todo
TodoArgs == {<<>>} \cup {<<t>> : t \in Texts}

\* Page numbers sent to a store of at most MaxTodos todos
PageNums == 0 .. TotalPages(MaxTodos) + 1

\* The store and the clock an event finds
Found == [users |-> users, todos |-> todos, now |-> now]

\* The dispatcher takes one more event
Handled ==
    /\ events < MaxEvents
    /\ events' = events + 1
    /\ tasks' = tasks
    /\ pre' = Found

\* The message handlers in registration order, each with the command its
\* filter accepts; the filter of the last one accepts every message.
MessageHandlers ==
    << [name |-> "start",      command |-> "/start"],
       [name |-> "get_users",  command |-> "/get_users"],
       [name |-> "post_users", command |-> "/post_users"],
       [name |-> "get_todos",  command |-> "/get_todos"],
       [name |-> "todo",       command |-> "/todo"],
       [name |-> "other",      command |-> None] >>

CommandTexts == {MessageHandlers[i].command : i \in 1 .. Len(MessageHandlers)} \ {None}

\* The first registered handler whose filter accepts a message that starts
\* with `command` (a free text, or None for a message without text, is
\* accepted by the last handler only)
FirstAccepting(command) ==
    LET accepting == {i \in 1 .. Len(MessageHandlers) :
                         MessageHandlers[i].command \in {command, None}}
    IN  MessageHandlers[CHOOSE i \in accepting : \A j \in accepting : i <= j].name

\* The routing table: the handler of every message there is
Route == [command \in CommandTexts \cup Texts \cup {None} |-> FirstAccepting(command)]

\* As HandlerFor, but the sender's open session is looked at first and takes
\* the message whatever it is
HandlerForSessionFirst(u, command) ==
    IF u \in DOMAIN users /\ users[u].active_command = TODO
    THEN "other"
    ELSE Route[command]

\* The handler the dispatcher calls for sender u's message: filters look at
\* the message only, never at the sender's session.
HandlerFor(u, command) == Route[command]

\* The dispatcher's routes: a message goes to the first registered handler
\* that accepts it, a callback to the handler its payload's prefix names.
DispatchStart(u) ==
    HandlerFor(u, "/start") = "start" /\ Handled /\ command_start_handler(u)

DispatchGetUsers(u) ==
    HandlerFor(u, "/get_users") = "get_users" /\ Handled /\ get_users(u)

DispatchPostUsers(u, args) ==
    HandlerFor(u, "/post_users") = "post_users" /\ Handled /\ post_users(u, args)

DispatchGetTodos(u, args) ==
    HandlerFor(u, "/get_todos") = "get_todos" /\ Handled /\ get_todos(u, args)

DispatchTodo(u, args) ==
    HandlerFor(u, "/todo") = "todo" /\ Handled /\ handle_todo_command(u, args)

DispatchOther(u, text) ==
    HandlerFor(u, text) = "other" /\ Handled /\ handle_other_messages(u, text)

DispatchDoneCallback(u, data) == Handled /\ handle_done_todo_callback(u, data)

DispatchPageCallback(u, data) == Handled /\ handle_get_todos_callback(u, data)

Init ==
    /\ init_db
    /\ now \in Clock
    /\ out = NoOut
    /\ pre = Found
    /\ walk = NoWalk
    /\ events = 0
    /\ tasks = <<>>

Next ==
    \/ \E u \in UserIds : DispatchStart(u)
    \/ \E u \in UserIds : DispatchGetUsers(u)
    \/ \E u \in UserIds, args \in PostArgs : DispatchPostUsers(u, args)
    \/ \E u \in UserIds, args \in PageArgs(PageNums) : DispatchGetTodos(u, args)
    \/ \E u \in UserIds, args \in TodoArgs : DispatchTodo(u, args)
    \/ \E u \in UserIds, text \in Texts \cup {None} \cup CommandTexts :
            DispatchOther(u, text)
    \/ \E u \in UserIds, data \in DonePayloads : DispatchDoneCallback(u, data)
    \/ \E u \in UserIds, data \in PagePayloads(PageNums) : DispatchPageCallback(u, data)
    \/ ClockChange

Spec == Init /\ [][Next]_vars

(***************************************************************************)
(* PageSpec: listings over a store that already holds up to MaxPreload     *)
(* todos, created at wall-clock times in any order                         *)
(***************************************************************************)
DuePatterns == {"rising", "equal", "falling", "mixed"}

PreDue(i, pattern) ==
    CASE pattern = "rising" -> DueDays + i
      [] pattern = "equal" -> DueDays
      [] pattern = "falling" -> DueDays + MaxPreload + 1 - i
      [] pattern = "mixed" -> DueDays + (i % 3)

\* With `shared`, every third todo is sender 2's.
PreOwner(i, shared) == IF shared /\ i % 3 = 0 THEN 2 ELSE 1

PreStatus(i) == IF i % 4 = 1 THEN DONE ELSE PENDING

Preload(n, pattern, shared) ==
    [i \in 1 .. n |->
        Todo(i, IF i % 2 = 0 THEN "buy milk" ELSE "call mom", PreStatus(i),
             PreDue(i, pattern), PreOwner(i, shared))]

PreUsers(shared) ==
    IF shared THEN (1 :> User("alice", None)) @@ (2 :> User("2", None))
    ELSE (1 :> User("alice", None))

\* Page numbers sent to a store of at most MaxPreload todos
AllPageNums == -1 .. TotalPages(MaxPreload) + 2

PageInit ==
    /\ \E n \in 0 .. MaxPreload, pattern \in DuePatterns, shared \in BOOLEAN :
          /\ todos = Preload(n, pattern, shared)
          /\ users = PreUsers(shared)
    /\ now = 0
    /\ out = NoOut
    /\ pre = Found
    /\ walk = NoWalk
    /\ events = 0
    /\ tasks = <<>>

ListPage(u, args) == get_todos(u, args) /\ pre' = Found /\ UNCHANGED <<events, tasks>>

TurnPage(u, data) ==
    handle_get_todos_callback(u, data) /\ pre' = Found /\ UNCHANGED <<events, tasks>>

PageNext ==
    \/ \E u \in UserIds, args \in PageArgs(AllPageNums) : ListPage(u, args)
    \/ \E u \in UserIds, data \in PagePayloads(AllPageNums) : TurnPage(u, data)

PageSpec == PageInit /\ [][PageNext]_vars

(***************************************************************************)
(* ConcSpec: handler invocations as asyncio tasks.  A task runs without    *)
(* interruption from one await to the next; while it waits at an await any *)
(* other task may run.                                                     *)
(***************************************************************************)
\* The statements of handle_other_messages and process_todo, in order
ProgramOther == <<"get_or_none", "match", "create", "clear", "answer">>

\* The statements of get_todos and show_todos_page for a message, in order
ProgramGetTodos ==
    <<"page", "get", "count", "paginate", "header", "select", "render">>

Program(kind) == IF kind = "other" THEN ProgramOther ELSE ProgramGetTodos

\* As IsAwait, but the read of the sender's row is awaited too, as a query
\* through an asynchronous driver would be
IsAwaitStoreToo(stmt) == stmt \in {"answer", "header", "render", "get_or_none"}

\* The statements that are awaits: the sends of message.answer.  The peewee
\* calls are plain calls and return without yielding to the event loop.
IsAwait(stmt) == stmt \in {"answer", "header", "render"}

\* A handler invocation that has just been dispatched
NewTask(kind, u, input) ==
    [kind |-> kind, user |-> u, input |-> input, pc |-> 1,
     found |-> FALSE, row |-> User(None, None),
     page |-> 0, total_pages |-> 0, offset |-> 0,
     counted |-> <<>>, rows |-> <<>>, rendered |-> FALSE,
     replies |-> <<>>, raised |-> "none", created |-> FALSE]

\* The statement a task is at, and the positions past its last statement and
\* of the statement `label`
Stmt(t) == Program(t.kind)[t.pc]

End(t) == Len(Program(t.kind)) + 1

Goto(t, label) == CHOOSE i \in 1 .. Len(Program(t.kind)) : Program(t.kind)[i] = label

Finished(t) == t.pc = End(t)

\* One statement of task s.t on the store s.users, s.todos.  A listing
\* writes nothing, so its queries read the tables as they are.
Exec(s) ==
    LET t == s.t
        u == t.user
        next == [t EXCEPT !.pc = @ + 1]
    IN  CASE Stmt(t) = "get_or_none" ->
                 \* user = User.get_or_none(User.id == message.from_user.id)
                 [s EXCEPT !.t = [next EXCEPT
                     !.found = u \in DOMAIN s.users,
                     !.row = IF u \in DOMAIN s.users THEN s.users[u] ELSE @]]
          [] Stmt(t) = "match" ->
                 IF ~t.found
                 THEN [s EXCEPT !.t = [t EXCEPT !.pc = Goto(t, "answer"),
                                          !.replies = <<Plain("start_first")>>]]
                 ELSE IF IsContinuation(t.row)
                 THEN [s EXCEPT !.t = next]
                 ELSE [s EXCEPT !.t = [t EXCEPT !.pc = Goto(t, "answer"),
                                          !.replies = <<Plain("help")>>]]
          [] Stmt(t) = "create" ->
                 \* Todo.create(text=..., status=PENDING, user=user, due_date=...)
                 IF t.input[1] = None
                 THEN [s EXCEPT !.t = [t EXCEPT !.pc = End(t),
                                          !.raised = "IntegrityError"]]
                 ELSE [s EXCEPT
                         !.todos = Append(@, Todo(Len(@) + 1, t.input[1], PENDING,
                                                  now + DueDays, u)),
                         !.t = [next EXCEPT !.created = TRUE]]
          [] Stmt(t) = "clear" ->
                 \* if user.active_command: ...; user.save() writes the row
                 \* as this task read it, with active_command None
                 IF t.row.active_command # None
                 THEN [s EXCEPT
                         !.users = save(@, u, [t.row EXCEPT !.active_command = None]),
                         !.t = [next EXCEPT !.row = [@ EXCEPT !.active_command = None]]]
                 ELSE [s EXCEPT !.t = next]
          [] Stmt(t) = "answer" ->
                 \* await message.answer(...)
                 [s EXCEPT !.t = [next EXCEPT
                     !.replies = IF t.created
                                 THEN <<Msg("todo_created", t.input[1], 0, 0, FALSE, <<>>)>>
                                 ELSE @]]
          [] Stmt(t) = "page" ->
                 [s EXCEPT !.t = [next EXCEPT !.page = CommandPage(t.input)]]
          [] Stmt(t) = "get" ->
                 \* user = User.get(User.id == user_id)
                 IF u \in DOMAIN s.users
                 THEN [s EXCEPT !.t = next]
                 ELSE [s EXCEPT !.t = [t EXCEPT !.pc = End(t),
                                          !.replies = <<Plain("empty_state")>>]]
          [] Stmt(t) = "count" ->
                 \* total_todos = Todo.select().where(Todo.user == user).count()
                 IF NoTodos(CountTodos(u))
                 THEN [s EXCEPT !.t = [t EXCEPT !.pc = End(t),
                                          !.replies = <<Plain("empty_state")>>]]
                 ELSE [s EXCEPT !.t = [next EXCEPT
                         !.total_pages = TotalPages(CountTodos(u)),
                         !.counted = OrderByDueDate(UserTodos(u))]]
          [] Stmt(t) = "paginate" ->
                 [s EXCEPT !.t = [next EXCEPT
                     !.page = ClampPage(t.page, t.total_pages),
                     !.offset = Offset(ClampPage(t.page, t.total_pages))]]
          [] Stmt(t) = "header" ->
                 \* await msg.answer(f"Your todos (Page {page}/{total_pages}):")
                 [s EXCEPT !.t = [next EXCEPT
                     !.replies = <<HeaderMsg(t.page, t.total_pages)>>]]
          [] Stmt(t) = "select" ->
                 \* for todo in todos: the select runs when the loop starts
                 [s EXCEPT !.t = [next EXCEPT !.rows = PageQuery(u, t.offset),
                                             !.rendered = TRUE]]
          [] Stmt(t) = "render" ->
                 \* the item messages, the separator and the navigation prompt
                 [s EXCEPT !.t = [next EXCEPT
                     !.replies = @ \o ItemMsgs(t.rows) \o <<Plain("separator")>>
                                   \o NavMsgs(t.page, t.total_pages)]]

RECURSIVE RunToAwait(_)
\* A task runs until it has executed an await or its last statement
RunToAwait(s) ==
    LET after == Exec(s)
    IN  IF Finished(after.t) \/ IsAwait(Stmt(s.t)) THEN after ELSE RunToAwait(after)

\* The dispatcher starts a task for a message without command
ArriveText(u, text) ==
    /\ Len(tasks) < MaxTasks
    /\ HandlerFor(u, text) = "other"
    /\ tasks' = Append(tasks, NewTask("other", u, <<text>>))
    /\ UNCHANGED <<users, todos, now, out, pre, walk, events>>

\* The dispatcher starts a task for /get_todos
ArriveGetTodos(u, args) ==
    /\ Len(tasks) < MaxTasks
    /\ HandlerFor(u, "/get_todos") = "get_todos"
    /\ tasks' = Append(tasks, NewTask("get_todos", u, args))
    /\ UNCHANGED <<users, todos, now, out, pre, walk, events>>

\* The event loop runs task i up to its next await
Resume(i) ==
    /\ ~Finished(tasks[i])
    /\ LET s == RunToAwait([t |-> tasks[i], users |-> users, todos |-> todos])
       IN  /\ tasks' = [tasks EXCEPT ![i] = s.t]
           /\ users' = s.users
           /\ todos' = s.todos
    /\ UNCHANGED <<now, out, pre, walk, events>>

\* One user, idle or with an open session, with up to MaxTodos todos
ConcInit ==
    /\ \E session \in {None, TODO} : users = (1 :> User(TgUsername[1], session))
    /\ \E n \in 0 .. MaxTodos :
          todos = [i \in 1 .. n |-> Todo(i, "buy milk", PENDING, DueDays, 1)]
    /\ now \in Clock
    /\ out = NoOut
    /\ pre = Found
    /\ walk = NoWalk
    /\ events = 0
    /\ tasks = <<>>

ConcNext ==
    \/ \E u \in DOMAIN users, text \in Texts : ArriveText(u, text)
    \/ \E u \in DOMAIN users, args \in PageArgs(1 .. 2) : ArriveGetTodos(u, args)
    \/ \E i \in 1 .. Len(tasks) : Resume(i)

ConcSpec == ConcInit /\ [][ConcNext]_vars

(***************************************************************************)
(* Properties                                                              *)
(***************************************************************************)
\* The session of sender u in a users table
IsIdle(table, u) == u \notin DOMAIN table \/ table[u].active_command = None

IsAwaitingTodoText(table, u) == u \in DOMAIN table /\ table[u].active_command = TODO

\* ceil(n / k), by its definition
Ceil(n, k) == CHOOSE c \in 0 .. n : c * k >= n /\ (c - 1) * k < n

\* The event handled last carried a page number; PageNumber is that number.
HasPageNumber ==
    \/ out.ev = "get_todos" /\ out.input # <<>> /\ IsInt(out.input[1])
    \/ out.ev = "get_todos_callback" /\ IsInt(Last(out.input))

PageNumber == IF out.ev = "get_todos" THEN int(out.input[1]) ELSE int(Last(out.input))

\* The event handled last was a completion callback with an integer id; DoneId
\* is that id.
HasDoneId == out.ev = "done_todo_callback" /\ IsInt(Last(out.input))

DoneId == int(Last(out.input))

\* C1: for a sender whose session is Idle (a sender with no User row
\* included), /todo without argument opens AwaitingTodoText and creates no
\* todo; the free text that sender sends while AwaitingTodoText creates
\* exactly one todo of that sender with the message's text, status pending
\* and due_date seven days after the creation time, and the session is Idle
\* again.
C1_PromptThenText ==
    /\ (out.ev = "todo" /\ out.input = <<>> /\ IsIdle(pre.users, out.user))
          => (IsAwaitingTodoText(users, out.user) /\ todos = pre.todos)
    /\ (out.ev = "other" /\ out.input[1] \in Texts
            /\ IsAwaitingTodoText(pre.users, out.user))
          => /\ todos = Append(pre.todos,
                               Todo(Len(pre.todos) + 1, out.input[1], PENDING,
                                    pre.now + 7, out.user))
             /\ out.user \in DOMAIN users
             /\ users[out.user].active_command = None

\* C2: whether the page number p comes with /get_todos or in a navigation
\* callback, the page served is ceil(N/5) when p > ceil(N/5) and 1 when
\* p < 1, and the offset of the slice is never negative.
C2_PageClamped ==
    (out.listing.served /\ HasPageNumber) =>
        LET total == Ceil(CountTodos(out.user), 5)
        IN  /\ PageNumber > total => out.listing.page = total
            /\ PageNumber < 1 => out.listing.page = 1
            /\ out.listing.offset >= 0

\* `ids` lists every todo of sender u exactly once, in ascending due_date
\* order, todos of equal due_date in insertion order.
IsOrderedListing(ids, u) ==
    LET mine == {i \in 1 .. Len(todos) : todos[i].user = u}
    IN  /\ Len(ids) = Cardinality(mine)
        /\ {ids[k] : k \in 1 .. Len(ids)} = mine
        /\ \A j, k \in 1 .. Len(ids) :
              j < k => \/ todos[ids[j]].due_date < todos[ids[k]].due_date
                       \/ /\ todos[ids[j]].due_date = todos[ids[k]].due_date
                          /\ ids[j] < ids[k]

\* The pages 1 .. totalPages of one sender have been listed in order
WalkComplete == walk.user # 0 /\ walk.next = TotalPages(CountTodos(walk.user)) + 1

DoneOfStored == HasDoneId /\ DoneId \in 1 .. Len(pre.todos)

DoneAgain == DoneOfStored /\ pre.todos[DoneId].status = DONE

\* C4: a completion callback for a stored todo sets its status to done and
\* changes nothing else; handled again for a todo already done it leaves the
\* store as it found it, and is answered as a success, not an error.
C4_DoneIdempotent ==
    /\ DoneOfStored =>
          /\ todos = [pre.todos EXCEPT ![DoneId] = [@ EXCEPT !.status = DONE]]
          /\ users = pre.users
          /\ out.ack = "done" /\ out.raised = "none"
    /\ DoneAgain => todos = pre.todos

\* Witness of C4: the callback was handled for a todo already done.
C4_Witness == DoneAgain /\ out.ack = "done"

\* C5: a completion callback whose integer id is the id of no stored todo is
\* answered with the not-found alert, changes no Todo and no User row, and
\* rewrites, posts and deletes no message.
C5_NotFound ==
    (HasDoneId /\ DoneId \notin 1 .. Len(pre.todos)) =>
        /\ out.ack = "todo_not_found" /\ out.ack \in AlertAcks
        /\ todos = pre.todos /\ users = pre.users
        /\ out.edited = <<>> /\ out.replies = <<>> /\ ~out.deleted
        /\ out.raised = "none"

\* Witness of C5: a callback for an id beyond the todos stored.
C5_Witness ==
    /\ HasDoneId /\ DoneId \notin 1 .. Len(pre.todos)
    /\ Len(pre.todos) > 0
    /\ out.ack = "todo_not_found"

\* The buttons of the navigation prompts posted by the last event
NavPrompts == {k \in 1 .. Len(out.replies) : out.replies[k].kind = "navigate"}

ShownNavButtons ==
    UNION {{out.replies[k].buttons[b] : b \in 1 .. Len(out.replies[k].buttons)} :
              k \in NavPrompts}

ItemsPosted == Cardinality({k \in 1 .. Len(out.replies) : out.replies[k].kind = "item"})

\* C6: for N >= 1 todos and the page p served: totalPages = ceil(N/5),
\* offset = (p-1)*5, exactly min(5, N - offset) items are rendered, a
\* Previous button to p-1 exactly when p > 1, a Next button to p+1 exactly
\* when p < totalPages, and the navigation prompt exactly when one of them
\* is there.
C6_PageLayout ==
    out.listing.served =>
        LET N == CountTodos(out.user)
            p == out.listing.page
            total == Ceil(N, 5)
        IN  /\ out.listing.total_pages = total
            /\ out.listing.offset = (p - 1) * 5
            /\ Len(out.listing.items) = Min(5, N - (p - 1) * 5)
            /\ ItemsPosted = Len(out.listing.items)
            /\ (PageData(p - 1) \in ShownNavButtons) <=> (p > 1)
            /\ (PageData(p + 1) \in ShownNavButtons) <=> (p < total)
            /\ (NavPrompts # {}) <=> (p > 1 \/ p < total)
            /\ Cardinality(NavPrompts) <= 1

\* The last event created a todo
TodoCreated == Len(todos) = Len(pre.todos) + 1

\* C7: right after a todo is created for a sender, by /todo <text> or by a
\* continuation message, that sender's stored active_command is none.
C7_CreationClosesSession ==
    TodoCreated =>
        /\ Last(todos).user \in DOMAIN users
        /\ users[Last(todos).user].active_command = None

\* Witness of C7: /todo <text> created a todo while the sender was
\* AwaitingTodoText.
C7_Witness ==
    /\ TodoCreated
    /\ out.ev = "todo" /\ out.input # <<>>
    /\ IsAwaitingTodoText(pre.users, out.user)

\* C8: after /post_users <id> <name> with an integer id that was not known,
\* a User row with that id and username is stored and the sender is told
\* the user was posted.
C8_PostUsersInserts ==
    (out.ev = "post_users" /\ Len(out.input) = 2 /\ IsInt(out.input[1])
        /\ int(out.input[1]) \notin DOMAIN pre.users) =>
        /\ int(out.input[1]) \in DOMAIN users
        /\ users[int(out.input[1])].username = out.input[2]
        /\ Len(out.replies) = 1 /\ out.replies[1].kind = "posted"

\* The last event was /get_todos from a sender with a User row and no todo
ListingOfNone ==
    /\ out.ev = "get_todos"
    /\ out.user \in DOMAIN pre.users
    /\ \A i \in 1 .. Len(pre.todos) : pre.todos[i].user # out.user

\* C9: /get_todos, with any page argument, from a sender with a User row and
\* no todo is answered with the empty-state message alone: no header, no
\* item, no separator, no navigation prompt.
C9_EmptyState ==
    ListingOfNone =>
        /\ out.replies = <<Plain("empty_state")>>
        /\ ~out.listing.served
        /\ NavPrompts = {}

\* Witness of C9: page 2 was asked for while only another sender has todos.
C9_Witness == ListingOfNone /\ out.input = <<"2">> /\ Len(pre.todos) > 0

\* The last event was a todo query from a sender with no User row
QueryOfUnknown ==
    /\ out.ev = "get_todos" \/ (out.ev = "get_todos_callback" /\ HasPageNumber)
    /\ out.user \notin DOMAIN pre.users

\* C10 as stated: /get_todos and a page-navigation callback from a sender
\* with no User row both end in the empty state, not in an error, and
\* nothing is created or changed.
C10_UnknownIsEmptyState ==
    QueryOfUnknown =>
        /\ out.ack \notin AlertAcks
        /\ out.ev = "get_todos" => out.replies = <<Plain("empty_state")>>
        /\ users = pre.users /\ todos = pre.todos

\* C10 as amended: /get_todos from a sender with no User row is answered
\* with the empty-state message; a page-navigation callback from such a
\* sender is answered with the user-not-found alert and posts, edits and
\* deletes nothing; neither creates or changes anything.
C10_UnknownSender ==
    QueryOfUnknown =>
        /\ users = pre.users /\ todos = pre.todos
        /\ ~out.listing.served /\ out.edited = <<>> /\ ~out.deleted
        /\ out.raised = "none"
        /\ IF out.ev = "get_todos"
           THEN out.replies = <<Plain("empty_state")>> /\ out.ack = "none"
           ELSE out.replies = <<>> /\ out.ack = "user_not_found"

\* Witness of C10: a page-navigation callback from a sender with no User row.
C10_Witness ==
    QueryOfUnknown /\ out.ev = "get_todos_callback" /\ out.ack = "user_not_found"

\* The replies that tell the sender the input was wrong
CorrectiveKinds == {"post_users_usage", "post_users_invalid"}

\* The event handled last was /post_users with arguments that are missing,
\* are a single token, or start with something that is no integer.
MalformedPostUsers ==
    /\ out.ev = "post_users"
    /\ out.input = <<>> \/ Len(out.input) # 2 \/ ~IsInt(out.input[1])

\* The event handled last was /get_todos with a page argument that is no number.
NonNumericPage ==
    out.ev = "get_todos" /\ out.input # <<>> /\ ~IsInt(out.input[1])

HasCorrectiveReply ==
    \E i \in 1 .. Len(out.replies) : out.replies[i].kind \in CorrectiveKinds

StoreUntouched == users = pre.users /\ todos = pre.todos

\* C11 (as stated): malformed /post_users arguments and a non-numeric
\* /get_todos page each get a corrective reply, change no User and no Todo,
\* and raise nothing.
C11_InputErrorCorrected ==
    (MalformedPostUsers \/ NonNumericPage) =>
        /\ HasCorrectiveReply
        /\ StoreUntouched
        /\ out.raised = "none"

\* C11 (amended): malformed /post_users arguments get exactly one corrective
\* reply (the usage text when there are no arguments, the invalid-format text
\* otherwise); a non-numeric /get_todos page gets no corrective reply and is
\* served as page 1, with the same replies as /get_todos without argument;
\* in all these cases no User and no Todo is created or changed and nothing
\* is raised.
C11_InputErrorRecovered ==
    /\ MalformedPostUsers =>
          /\ out.replies = <<Plain(IF out.input = <<>> THEN "post_users_usage"
                                   ELSE "post_users_invalid")>>
          /\ StoreUntouched
          /\ out.raised = "none"
    /\ NonNumericPage =>
          /\ ~HasCorrectiveReply
          /\ out.listing.served => out.listing.page = 1
          /\ out.replies =
                show_todos_page(Outcome("get_todos", out.user, <<>>),
                                out.user, 1, FALSE).replies
          /\ StoreUntouched
          /\ out.raised = "none"

\* A non-numeric page was served as a listing
C11_Witness == NonNumericPage /\ out.listing.served /\ Len(out.replies) > 2

\* The event handled last was a button press
IsCallback == out.ev \in {"done_todo_callback", "get_todos_callback"}

\* C12: every button-press callback (completion toggle or page navigation)
\* is acknowledged by the time its handling finishes, on every path.
C12_CallbackAcknowledged == IsCallback => out.ack # "none"

\* The event handled last was a navigation callback carrying a page number
TurnedPage == out.ev = "get_todos_callback" /\ IsInt(Last(out.input))

\* What /get_todos p posts for the store as it is
InitialListing(u, p) ==
    show_todos_page(Outcome("get_todos", u, <<str[p]>>), u,
                    CommandPage(<<str[p]>>), FALSE).replies

\* C13: a page-navigation callback for page p removes the prior navigation
\* prompt and then posts exactly the messages /get_todos p would post for
\* the same store (header, item messages, separator, navigation prompt), and
\* edits no message.
C13_CallbackAsInitialListing ==
    TurnedPage =>
        /\ out.deleted
        /\ out.replies = InitialListing(out.user, int(Last(out.input)))
        /\ out.edited = <<>>

\* The commands other than /todo, by handler name and by text
OtherCommandEvents == {"start", "get_todos", "get_users", "post_users"}

OtherCommandTexts == {"/start", "/get_todos", "/get_users", "/post_users"}

\* The message handled last was one of these commands, whichever handler took it
SentOtherCommand ==
    \/ out.ev \in OtherCommandEvents
    \/ out.ev = "other" /\ out.input[1] \in OtherCommandTexts

\* C14 (as stated): a /start, /get_todos, /get_users or /post_users message
\* of a sender in AwaitingTodoText is consumed as the todo's text: a todo
\* with that text is created, the session is Idle again and the command's
\* own handler does not run.
C14_CommandConsumedAsText ==
    (SentOtherCommand /\ IsAwaitingTodoText(pre.users, out.user)) =>
        /\ out.ev = "other"
        /\ Len(todos) = Len(pre.todos) + 1
        /\ Last(todos).text = out.input[1]
        /\ IsIdle(users, out.user)

\* C14 (amended): no command is ever consumed as todo text; a /start,
\* /get_todos, /get_users or /post_users message of a sender in
\* AwaitingTodoText is handled by the command's own handler, creates no todo
\* and leaves that sender in AwaitingTodoText.
C14_CommandKeepsSession ==
    /\ out.ev = "other" => out.input[1] \notin CommandTexts
    /\ (SentOtherCommand /\ IsAwaitingTodoText(pre.users, out.user)) =>
          /\ out.ev \in OtherCommandEvents
          /\ todos = pre.todos
          /\ IsAwaitingTodoText(users, out.user)

\* A listing command was handled for a sender in AwaitingTodoText
C14_Witness ==
    /\ out.ev = "get_todos"
    /\ IsAwaitingTodoText(pre.users, out.user)
    /\ IsAwaitingTodoText(users, out.user)

\* C16: across every event no todo is deleted and none has its id, text,
\* due_date or owner changed; a status changes only from pending to done, a
\* todo that is done stays done, every new todo is pending, and no todo is
\* ever active or declined.
C16_StatusOneWay ==
    /\ Len(todos) >= Len(pre.todos)
    /\ \A i \in 1 .. Len(pre.todos) :
          /\ todos[i] = [pre.todos[i] EXCEPT !.status = todos[i].status]
          /\ todos[i].status \in {pre.todos[i].status, DONE}
          /\ pre.todos[i].status = DONE => todos[i].status = DONE
    /\ \A i \in Len(pre.todos) + 1 .. Len(todos) : todos[i].status = PENDING
    /\ \A i \in 1 .. Len(todos) : todos[i].status \in {PENDING, DONE}

\* A todo went from pending to done while another one stayed pending
C16_Witness ==
    /\ \E i \in 1 .. Len(pre.todos) :
          pre.todos[i].status = PENDING /\ todos[i].status = DONE
    /\ \E j \in 1 .. Len(todos) : todos[j].status = PENDING

\* C17: in every reachable store every todo's owner has a User row, every
\* todo's status is one of pending, active, done and declined, every todo has
\* a due_date, and every user's active_command is none or the tag todo.
C17_StoreInvariants ==
    /\ \A i \in 1 .. Len(todos) :
          /\ todos[i].user \in DOMAIN users
          /\ todos[i].status \in {"pending", "active", "done", "declined"}
          /\ todos[i].due_date \in Nat
    /\ \A u \in DOMAIN users : users[u].active_command \in {None, "todo"}

\* Both senders have a row, one of them with todos and an open session
C17_Witness ==
    /\ DOMAIN users = UserIds
    /\ \E i \in 1 .. Len(todos) : users[todos[i].user].active_command = TODO

IdleFreeText == out.ev = "other" /\ IsIdle(pre.users, out.user)

\* C19: free text from a sender with no User row gets the bootstrap prompt,
\* free text from a user whose session is Idle gets the help text, and in
\* both cases no User and no Todo is created and no active_command changes.
C19_IdleTextNoEffect ==
    IdleFreeText =>
        /\ out.replies = <<Plain(IF out.user \in DOMAIN pre.users
                                 THEN "help" ELSE "start_first")>>
        /\ StoreUntouched
        /\ out.raised = "none"

\* An Idle user got the help text while another user's session was open
C19_Witness ==
    /\ IdleFreeText
    /\ out.user \in DOMAIN users
    /\ out.replies = <<Plain("help")>>
    /\ \E v \in DOMAIN users : users[v].active_command = TODO

\* The tasks that took a free text of user u and created a todo from it
Consumers(u) ==
    {i \in 1 .. Len(tasks) :
        tasks[i].kind = "other" /\ tasks[i].user = u /\ tasks[i].created}

\* The sessions of user u there are to consume: no task of ConcSpec opens one
Opened(u) == IF IsAwaitingTodoText(pre.users, u) THEN 1 ELSE 0

\* C15: with the handlings of one user's free-text messages interleaved at
\* their awaits, an open session is consumed at most once: as soon as one
\* handling has finished, exactly one todo has been created from the open
\* session, the session is Idle from the creation on, and every handling
\* that did not create the todo ends with the help reply.
C15_SessionConsumedOnce ==
    \A u \in DOMAIN users :
        /\ Cardinality(Consumers(u)) <= Opened(u)
        /\ Consumers(u) # {} => IsIdle(users, u)
        /\ \A i \in 1 .. Len(tasks) :
              (tasks[i].kind = "other" /\ tasks[i].user = u /\ Finished(tasks[i])) =>
                  /\ Cardinality(Consumers(u)) = Opened(u)
                  /\ ~tasks[i].created => tasks[i].replies = <<Plain("help")>>

\* Two free texts of a user with an open session were in flight together:
\* the one dispatched second created the todo, the one dispatched first got
\* the help reply
C15_Witness ==
    /\ Len(tasks) = 2
    /\ tasks[1].kind = "other" /\ tasks[2].kind = "other"
    /\ tasks[1].user = tasks[2].user
    /\ Finished(tasks[1]) /\ Finished(tasks[2])
    /\ ~tasks[1].created /\ tasks[1].replies = <<Plain("help")>>
    /\ tasks[2].created
    /\ IsIdle(users, tasks[1].user)

\* C20: the items a listing renders are the slice [offset, offset + 5) of
\* the todo list whose size determined total_pages, the header and the
\* navigation buttons, whatever todo creation of the same user runs at the
\* listing's awaits.
C20_SingleSnapshot ==
    \A i \in 1 .. Len(tasks) :
        (tasks[i].kind = "get_todos" /\ tasks[i].rendered) =>
            /\ tasks[i].total_pages = TotalPages(Len(tasks[i].counted))
            /\ tasks[i].rows =
                  LimitOffset(tasks[i].counted, items_per_page, tasks[i].offset)

\* The todos the last event changed belong to its sender
ChangesOwnTodosOnly ==
    \A i \in 1 .. Len(pre.todos) :
        todos[i] # pre.todos[i] => pre.todos[i].user = out.user

\* The todos the last event created belong to its sender
CreatesOwnTodosOnly ==
    \A i \in Len(pre.todos) + 1 .. Len(todos) : todos[i].user = out.user

\* The last event left every other user's active_command as it was
KeepsOthersSessions ==
    \A v \in DOMAIN pre.users \ {out.user} :
        v \in DOMAIN users /\ users[v].active_command = pre.users[v].active_command

\* C21: no event of one user changes another user's data: a completion
\* callback sets a todo to done only when its presser is the todo's owner,
\* and no event changes the active_command of, or creates a todo owned by,
\* a user other than its sender.
C21_OwnDataOnly ==
    out.ev # "none" =>
        /\ ChangesOwnTodosOnly
        /\ CreatesOwnTodosOnly
        /\ KeepsOthersSessions

====
